---- MODULE Spec2Model ----
(***************************************************************************)
(* Executor request surface of agola (internal/services/runservice/        *)
(* executor/api.go): the log endpoint (logsHandler) with its tail-follow   *)
(* reader, and the archive endpoint (archivesHandler), running against an  *)
(* execution engine that appends to the step log, changes the step phase   *)
(* under the task handle's lock and inserts/evicts the handle.             *)
(***************************************************************************)
EXTENDS Integers, Sequences, FiniteSets, TLC

(* ------------------------------ bounds --------------------------------- *)
\* longest log file the engine writes
MaxFileLen == 3
\* size of the bufio.Reader buffer (4096 in the Go library), scaled down so
\* that lines longer than one buffer occur
BufSize == 2

(* ------------------------------ values --------------------------------- *)
NL == "\n"
\* the content of a path at which there is no file
Absent == <<"ENOENT">>
Readers == {"r1"}
\* two requests at a time, for what concurrent streams do to each other
Streams == {"r1", "r2"}
\* the task submissions in flight
Submitters == {"s1", "s2", "s3"}
TaskIDs == {"t1"}
\* the indices of rt.et.Status.Steps of the one task
StepIndices == {0}
\* the step values requests are made with
StepVals == {-1, 0, 1}
\* the query strings for "step", as sequences of characters
StepStrs == { <<>>, <<"x">>, <<"1", "x">>, <<"-">>, <<"-", "1">>, <<"0">>, <<"1">> }
TaskStrs == {"", "t1"}
\* the byte the engine writes at position i when it is not a newline
Letter(i) == <<"a", "b", "c", "d", "e", "f", "g", "h">>[i]
\* a log on disk at the path of a step index the task does not have: the
\* handler opens whatever logPath yields for any integer, and nothing in
\* api.go ties the files to the length of Status.Steps
StaleLog == <<"a", NL, "c">>
\* the archive the engine writes when the step finishes
ArchiveBlob == <<"x", "y", "z">>

(* ------------------------------ helpers -------------------------------- *)
Min(a, b) == IF a < b THEN a ELSE b

RECURSIVE Flatten(_)
\* the bytes of a sequence of units, in order
Flatten(us) == IF us = <<>> THEN <<>> ELSE Head(us) \o Flatten(Tail(us))

IsPrefix(p, s) == Len(p) <= Len(s) /\ SubSeq(s, 1, Len(p)) = p

\* index of the first newline of b, 0 when there is none
IndexNL(b) == IF \E i \in 1..Len(b) : b[i] = NL
              THEN CHOOSE i \in 1..Len(b) : b[i] = NL /\ \A j \in 1..(i-1) : b[j] # NL
              ELSE 0

DigitVal(c) == CASE c = "0" -> 0 [] c = "1" -> 1 [] c = "2" -> 2 [] c = "3" -> 3
                 [] c = "4" -> 4 [] c = "5" -> 5 [] c = "6" -> 6 [] c = "7" -> 7
                 [] c = "8" -> 8 [] c = "9" -> 9 [] OTHER -> -1

RECURSIVE DigitsVal(_, _)
DigitsVal(ds, accv) == IF ds = <<>> THEN accv
                       ELSE DigitsVal(Tail(ds), accv * 10 + DigitVal(Head(ds)))

\* strconv.Atoi: optional sign, then one or more decimal digits
Atoi(s) ==
  LET body == IF s # <<>> /\ s[1] \in {"+", "-"} THEN Tail(s) ELSE s
      neg  == s # <<>> /\ s[1] = "-"
  IN IF body = <<>> \/ \E i \in 1..Len(body) : DigitVal(body[i]) < 0
     THEN [ok |-> FALSE, val |-> 0]
     ELSE [ok |-> TRUE, val |-> IF neg THEN 0 - DigitsVal(body, 0) ELSE DigitsVal(body, 0)]

(* ------------------------------- state --------------------------------- *)
VARIABLES
  runningTasks,  \* e.runningTasks: the ids that have a handle in the registry
  Steps,         \* rt.et.Status.Steps of task t1: step index -> phase
  rtLock,        \* holder of rt's mutex, "free" when unlocked
  logs,          \* the log file at logPath("t1", step): Absent or its bytes
  archives,      \* the archive file at archivePath("t1", step)
  rq,            \* per request: the handler's locals and the response
  sub,           \* per task submission: the handler's locals and the response
  c,             \* h.c: the submissions blocked in their send, oldest first
  received       \* the items the consumer of h.c has taken, in order

vars == <<runningTasks, Steps, rtLock, logs, archives, rq, sub, c, received>>

IdleReq == [ kind |-> "none", pc |-> "idle", taskID |-> "", s |-> <<>>, step |-> 0,
             follow |-> FALSE,
             fpos |-> 0, buf |-> <<>>, frag |-> <<>>, data |-> <<>>,
             stop |-> FALSE, flushstop |-> FALSE, ret |-> "none",
             status |-> 0, sink |-> <<>>, errbody |-> <<>>, connOpen |-> TRUE,
             logged |-> FALSE, ops |-> {}, polls |-> 0,
             atOpen |-> <<>>, quiet |-> FALSE, openErr |-> "none",
             err |-> "nil" ]

\* a submission before it is served: its body, the decoded et, the response
IdleSub == [ pc |-> "idle", body |-> <<>>, et |-> <<>>, status |-> 0 ]

IsFinished(ph) == ph = "finished"

\* the step the request follows is over: no handle, or its phase is finished
StepOver(rt, st, step) ==
  \/ "t1" \notin rt
  \/ step \in StepIndices /\ IsFinished(st[step])

\* ghost: a request stays quiet while its step has been over since the open
Quieten(rt, st) == [r \in DOMAIN rq |-> [rq[r] EXCEPT !.quiet = @ /\ StepOver(rt, st, rq[r].step)]]

Init ==
  /\ runningTasks = {}
  /\ Steps = [i \in StepIndices |-> "notstarted"]
  /\ rtLock = "free"
  /\ logs \in [StepVals -> {Absent, StaleLog}]
  /\ \A i \in StepIndices : logs[i] = Absent
  /\ archives = [i \in StepVals |-> Absent]
  /\ rq = [r \in Readers |-> IdleReq]
  /\ sub = [s \in Submitters |-> IdleSub]
  /\ c = <<>>
  /\ received = <<>>

(* --------------------------- execution engine -------------------------- *)
\* the engine starts tracking the task
Register ==
  /\ "t1" \notin runningTasks
  /\ \A i \in StepIndices : Steps[i] = "notstarted"
  /\ runningTasks' = runningTasks \cup {"t1"}
  /\ rq' = Quieten(runningTasks', Steps)
  /\ UNCHANGED <<Steps, rtLock, logs, archives, sub, c, received>>

\* the engine starts step i: phase written under the handle lock, log created
StartStep(i) ==
  /\ "t1" \in runningTasks
  /\ Steps[i] = "notstarted"
  /\ rtLock = "free"
  /\ Steps' = [Steps EXCEPT ![i] = "running"]
  /\ logs' = [logs EXCEPT ![i] = <<>>]
  /\ rq' = Quieten(runningTasks, Steps')
  /\ UNCHANGED <<runningTasks, rtLock, archives, sub, c, received>>

\* the engine appends one byte to the log of a running step
AppendLog(i, nl) ==
  /\ Steps[i] = "running"
  /\ Len(logs[i]) < MaxFileLen
  /\ logs' = [logs EXCEPT ![i] = Append(@, IF nl THEN NL ELSE Letter(Len(@) + 1))]
  /\ UNCHANGED <<runningTasks, Steps, rtLock, archives, rq, sub, c, received>>

\* the engine finishes step i: phase written under the handle lock, archive written
FinishStep(i) ==
  /\ Steps[i] = "running"
  /\ rtLock = "free"
  /\ Steps' = [Steps EXCEPT ![i] = "finished"]
  /\ archives' = [archives EXCEPT ![i] = ArchiveBlob]
  /\ UNCHANGED <<runningTasks, rtLock, logs, rq, sub, c, received>>

\* the engine evicts the handle once the task is complete
Evict ==
  /\ "t1" \in runningTasks
  /\ \A i \in StepIndices : IsFinished(Steps[i])
  /\ runningTasks' = runningTasks \ {"t1"}
  /\ UNCHANGED <<Steps, rtLock, logs, archives, rq, sub, c, received>>

(* ------------------------- the HTTP response -------------------------- *)
\* w.Write: the status is committed (200 unless already set) even when the
\* write then fails because the client is gone
CommitStatus(q) == [q EXCEPT !.status = IF @ = 0 THEN 200 ELSE @]

\* http.Error(w, "", code): WriteHeader(code), ignored once a status is
\* committed, then Fprintln(w, "") writes one newline to the body
HttpError(q, code) ==
  [q EXCEPT !.status = IF @ = 0 THEN code ELSE @,
            !.errbody = IF q.connOpen THEN Append(@, NL) ELSE @]

\* the handler returns; net/http commits 200 if nothing was written
Return(q, ret) ==
  [CommitStatus(q) EXCEPT !.pc = "returned", !.ret = ret]

\* h.log.Errorf in logsHandler.ServeHTTP
LogErr(q) == [q EXCEPT !.logged = TRUE]

\* mutant: the check of taskid is missing
ParamsOKNoTask(taskid, s) == s # <<>> /\ Atoi(s).ok

\* the query validation shared by both endpoints
ParamsOK(taskid, s) == taskid # "" /\ s # <<>> /\ Atoi(s).ok

\* os.Open's view of the file system
LogAt(taskid, step) ==
  IF taskid \in TaskIDs /\ step \in StepVals THEN logs[step] ELSE Absent

ArchiveAt(taskid, step) ==
  IF taskid \in TaskIDs /\ step \in StepVals THEN archives[step] ELSE Absent

(* --------------------------- logsHandler ------------------------------- *)
\* mutant: every failure of os.Open is answered 500
OpenLogAll500(q, file, openFault) ==
  LET q1 == [q EXCEPT !.ops = @ \cup {"path", "open"}]
  IN IF file = Absent
     THEN Return(LogErr(HttpError([q1 EXCEPT !.openErr = "notexist"], 500)), "err")
     ELSE IF openFault
     THEN Return(LogErr(HttpError([q1 EXCEPT !.openErr = "other"], 500)), "err")
     ELSE [q1 EXCEPT !.pc = "read", !.atOpen = file, !.openErr = "nil",
                     !.quiet = StepOver(runningTasks, Steps, q.step)]

\* readLogs up to the loop: os.Open and the three outcomes
OpenLog(q, file, openFault) ==
  LET q1 == [q EXCEPT !.ops = @ \cup {"path", "open"}]
  IN IF file = Absent
     THEN Return(LogErr(HttpError([q1 EXCEPT !.openErr = "notexist"], 404)), "err")
     ELSE IF openFault
     THEN Return(LogErr(HttpError([q1 EXCEPT !.openErr = "other"], 500)), "err")
     ELSE [q1 EXCEPT !.pc = "read", !.atOpen = file, !.openErr = "nil",
                     !.quiet = StepOver(runningTasks, Steps, q.step)]

\* logsHandler.ServeHTTP: validation, then readTaskLogs -> readLogs -> os.Open
LogsServeHTTP(r, taskid, s, follow, openFault) ==
  /\ rq[r].pc = "idle"
  /\ LET q0 == [rq[r] EXCEPT !.kind = "logs", !.taskID = taskid, !.s = s]
     IN rq' = [rq EXCEPT ![r] =
          IF ~ParamsOK(taskid, s)
          THEN Return(HttpError(q0, 400), "none")
          ELSE LET q1 == [q0 EXCEPT !.step = Atoi(s).val, !.follow = follow]
               IN OpenLog(q1, LogAt(taskid, q1.step), openFault)]
  /\ UNCHANGED <<runningTasks, Steps, rtLock, logs, archives, sub, c, received>>

\* mutant: end-of-file always stops the stream, follow or not
AtEOFStop(q) == [q EXCEPT !.stop = TRUE, !.pc = "write"]

\* mutant: the follow flag is not consulted at end-of-file
AtEOFAnyFollow(q) ==
  IF ~q.flushstop
  THEN [q EXCEPT !.pc = "seek"]
  ELSE [q EXCEPT !.stop = TRUE, !.pc = "write"]

\* lines 134-154: what end-of-file leads to
AtEOF(q) ==
  IF ~q.flushstop /\ q.follow
  THEN [q EXCEPT !.pc = "seek"]
  ELSE [q EXCEPT !.stop = TRUE, !.pc = "write"]

\* mutant: at end-of-file the partial line is dropped, only complete lines
\* are returned
FillDropPartial(q, file) ==
  LET n == Min(BufSize - Len(q.buf), Len(file) - q.fpos)
  IN IF n <= 0
     THEN AtEOF([q EXCEPT !.data = <<>>, !.buf = <<>>, !.frag = <<>>, !.err = "EOF"])
     ELSE [q EXCEPT !.buf = @ \o SubSeq(file, q.fpos + 1, q.fpos + n),
                    !.fpos = @ + n]

\* one read(2) of the log file through the bufio.Reader: up to the free space
\* of the buffer, from the file offset
Fill(q, file) ==
  LET n == Min(BufSize - Len(q.buf), Len(file) - q.fpos)
  IN IF n <= 0
     THEN \* io.EOF: ReadBytes returns everything gathered, the buffer is empty
          AtEOF([q EXCEPT !.data = q.frag \o q.buf, !.buf = <<>>, !.frag = <<>>,
                    !.err = "EOF"])
     ELSE [q EXCEPT !.buf = @ \o SubSeq(file, q.fpos + 1, q.fpos + n),
                    !.fpos = @ + n]

\* mutant: every error of the read is taken for the end of the file
ReadBytesStepAnyErrEOF(q, file, fault) ==
  LET i == IndexNL(q.buf)
  IN IF i > 0
     THEN [q EXCEPT !.data = q.frag \o SubSeq(q.buf, 1, i),
                    !.buf = SubSeq(q.buf, i + 1, Len(q.buf)),
                    !.frag = <<>>, !.err = "nil", !.pc = "write"]
     ELSE IF Len(q.buf) >= BufSize
     THEN [q EXCEPT !.frag = @ \o q.buf, !.buf = <<>>]
     ELSE IF fault
     THEN AtEOF([q EXCEPT !.data = q.frag \o q.buf, !.buf = <<>>, !.frag = <<>>,
                          !.err = "EIO"])
     ELSE Fill(q, file)

\* br.ReadBytes('\n'), one step of its loop
ReadBytesStep(q, file, fault) ==
  LET i == IndexNL(q.buf)
  IN IF i > 0
     THEN \* a delimiter is buffered: the line through it is returned
          [q EXCEPT !.data = q.frag \o SubSeq(q.buf, 1, i),
                    !.buf = SubSeq(q.buf, i + 1, Len(q.buf)),
                    !.frag = <<>>, !.err = "nil", !.pc = "write"]
     ELSE IF Len(q.buf) >= BufSize
     THEN \* bufio.ErrBufferFull: the full buffer is kept and the read goes on
          [q EXCEPT !.frag = @ \o q.buf, !.buf = <<>>]
     ELSE IF fault
     THEN \* a read error other than io.EOF: readLogs returns it
          Return(LogErr([q EXCEPT !.data = q.frag \o q.buf, !.buf = <<>>, !.frag = <<>>,
                                  !.err = "EIO"]), "err")
     ELSE Fill(q, file)

\* mutant: the streams share one file description, so a read by one moves
\* the offset of all
ReadBytesShared(r, fault) ==
  /\ rq[r].pc = "read"
  /\ LET q == ReadBytesStep(rq[r], logs[rq[r].step], fault)
     IN rq' = [u \in DOMAIN rq |->
                 IF u = r THEN q
                 ELSE IF rq[u].pc \in {"idle", "returned", "panicked"} THEN rq[u]
                 ELSE [rq[u] EXCEPT !.fpos = q.fpos]]
  /\ UNCHANGED <<runningTasks, Steps, rtLock, logs, archives, sub, c, received>>

ReadBytes(r, fault) ==
  /\ rq[r].pc = "read"
  /\ rq' = [rq EXCEPT ![r] = ReadBytesStep(@, logs[@.step], fault)]
  /\ UNCHANGED <<runningTasks, Steps, rtLock, logs, archives, sub, c, received>>

\* mutant: the cursor is left where the read stopped
SeekBackNone(q) == [q EXCEPT !.err = "nil", !.ops = @ \cup {"seek"}, !.pc = "get"]

\* f.Seek(-int64(len(data)), io.SeekCurrent)
SeekBack(q) ==
  [q EXCEPT !.fpos = @ - Len(q.data), !.err = "nil", !.ops = @ \cup {"seek"}, !.pc = "get"]

\* mutant: the streams seek on one shared file description
SeekShared(r, fault) ==
  /\ rq[r].pc = "seek"
  /\ LET q == IF fault THEN Return(LogErr([rq[r] EXCEPT !.err = "ESPIPE"]), "err")
                       ELSE SeekBack(rq[r])
     IN rq' = [u \in DOMAIN rq |->
                 IF u = r THEN q
                 ELSE IF rq[u].pc \in {"idle", "returned", "panicked"} THEN rq[u]
                 ELSE [rq[u] EXCEPT !.fpos = q.fpos]]
  /\ UNCHANGED <<runningTasks, Steps, rtLock, logs, archives, sub, c, received>>

Seek(r, fault) ==
  /\ rq[r].pc = "seek"
  /\ rq' = [rq EXCEPT ![r] = IF fault THEN Return(LogErr([@ EXCEPT !.err = "ESPIPE"]), "err")
                                    ELSE SeekBack(@)]
  /\ UNCHANGED <<runningTasks, Steps, rtLock, logs, archives, sub, c, received>>

\* mutant: a missing handle is not taken as "finished"
RegistryGetMissed(q, rt) ==
  IF q.taskID \notin rt
  THEN [q EXCEPT !.ops = @ \cup {"get"}, !.pc = "sleep"]
  ELSE [q EXCEPT !.ops = @ \cup {"get"}, !.pc = "lock"]

\* rt, ok := h.e.runningTasks.get(taskID)
RegistryGet(q, rt) ==
  IF q.taskID \notin rt
  THEN [q EXCEPT !.flushstop = TRUE, !.ops = @ \cup {"get"}, !.pc = "sleep"]
  ELSE [q EXCEPT !.ops = @ \cup {"get"}, !.pc = "lock"]

Get(r) ==
  /\ rq[r].pc = "get"
  /\ rq' = [rq EXCEPT ![r] = RegistryGet(@, runningTasks)]
  /\ UNCHANGED <<runningTasks, Steps, rtLock, logs, archives, sub, c, received>>

\* rt.Lock()
Lock(r) ==
  /\ rq[r].pc = "lock"
  /\ rtLock = "free"
  /\ rtLock' = r
  /\ rq' = [rq EXCEPT ![r] = [@ EXCEPT !.ops = @ \cup {"lock"}, !.pc = "phase"]]
  /\ UNCHANGED <<runningTasks, Steps, logs, archives, sub, c, received>>

\* rt.et.Status.Steps[step].Phase.IsFinished(): an index outside the slice
\* panics, and the panic unwinds the handler with the lock still held
PhaseCheck(q, st) ==
  IF q.step \notin DOMAIN st
  THEN [q EXCEPT !.pc = "panicked"]
  ELSE [q EXCEPT !.flushstop = @ \/ IsFinished(st[q.step]), !.pc = "unlock"]

ReadPhase(r) ==
  /\ rq[r].pc = "phase"
  /\ rq' = [rq EXCEPT ![r] = PhaseCheck(@, Steps)]
  /\ UNCHANGED <<runningTasks, Steps, rtLock, logs, archives, sub, c, received>>

\* rt.Unlock()
Unlock(r) ==
  /\ rq[r].pc = "unlock"
  /\ rtLock' = "free"
  /\ rq' = [rq EXCEPT ![r] = [@ EXCEPT !.pc = "sleep"]]
  /\ UNCHANGED <<runningTasks, Steps, logs, archives, sub, c, received>>

\* time.Sleep(500 * time.Millisecond); continue
PollWait(q) ==
  \* polls counts the waits: 0, 1, "2 or more"
  [q EXCEPT !.polls = IF @ < 2 THEN @ + 1 ELSE @,
            !.ops = @ \cup {"sleep"}, !.pc = "read"]

Sleep(r) ==
  /\ rq[r].pc = "sleep"
  /\ rq' = [rq EXCEPT ![r] = PollWait(@)]
  /\ UNCHANGED <<runningTasks, Steps, rtLock, logs, archives, sub, c, received>>

\* mutant: the error of w.Write is dropped
WriteDataUnchecked(q) ==
  LET q1 == [CommitStatus(q) EXCEPT !.sink = Append(@, q.data), !.err = "nil"]
  IN IF q.stop THEN Return(q1, "nil") ELSE [q1 EXCEPT !.pc = "read"]

\* w.Write(data), Flush, and the top of the loop (if stop return nil)
WriteData(q) ==
  IF ~q.connOpen
  THEN Return(LogErr([q EXCEPT !.err = "EPIPE"]), "err")
  ELSE LET q1 == [CommitStatus(q) EXCEPT !.sink = Append(@, q.data), !.err = "nil"]
       IN IF q.stop THEN Return(q1, "nil") ELSE [q1 EXCEPT !.pc = "read"]

Write(r) ==
  /\ rq[r].pc = "write"
  /\ rq' = [rq EXCEPT ![r] = WriteData(@)]
  /\ UNCHANGED <<runningTasks, Steps, rtLock, logs, archives, sub, c, received>>

\* the client closes the connection: every later write to the sink fails
ClientClose(r) ==
  /\ rq[r].pc \notin {"idle", "returned", "panicked"}
  /\ rq[r].connOpen
  /\ rq' = [rq EXCEPT ![r] = [@ EXCEPT !.connOpen = FALSE]]
  /\ UNCHANGED <<runningTasks, Steps, rtLock, logs, archives, sub, c, received>>

(* -------------------------- archivesHandler --------------------------- *)
\* mutant: os.IsNotExist is not consulted
ArchiveFailAll500(q, notexist) == Return(HttpError(q, 500), "err")

\* lines 194-201: the error of readArchive turned into a status
ArchiveFail(q, notexist) ==
  Return(HttpError(q, IF notexist THEN 404 ELSE 500), "err")

\* archivesHandler.ServeHTTP: validation, then readArchive's os.Open
ArchivesServeHTTP(r, taskid, s, openFault) ==
  /\ rq[r].pc = "idle"
  /\ LET q0 == [rq[r] EXCEPT !.kind = "archive", !.taskID = taskid, !.s = s]
     IN rq' = [rq EXCEPT ![r] =
          IF ~ParamsOK(taskid, s)
          THEN Return(HttpError(q0, 400), "none")
          ELSE LET q1 == [q0 EXCEPT !.step = Atoi(s).val, !.ops = @ \cup {"path", "open"}]
                   file == ArchiveAt(taskid, q1.step)
               IN IF file = Absent
                  THEN ArchiveFail([q1 EXCEPT !.openErr = "notexist"], TRUE)
                  ELSE IF openFault
                  THEN ArchiveFail([q1 EXCEPT !.openErr = "other"], FALSE)
                  ELSE [q1 EXCEPT !.pc = "aread", !.atOpen = file, !.openErr = "nil"]]
  /\ UNCHANGED <<runningTasks, Steps, rtLock, logs, archives, sub, c, received>>

\* io.Copy(w, br): one read of the next chunk
CopyRead(q, file, fault) ==
  LET n == Min(BufSize, Len(file) - q.fpos)
  IN IF fault THEN ArchiveFail(q, FALSE)
     ELSE IF n <= 0 THEN Return(q, "nil")
     ELSE [q EXCEPT !.data = SubSeq(file, q.fpos + 1, q.fpos + n),
                    !.fpos = @ + n, !.pc = "awrite"]

ArchiveRead(r, fault) ==
  /\ rq[r].pc = "aread"
  /\ rq' = [rq EXCEPT ![r] = CopyRead(@, archives[@.step], fault)]
  /\ UNCHANGED <<runningTasks, Steps, rtLock, logs, archives, sub, c, received>>

\* io.Copy(w, br): the chunk written to the response
CopyWrite(q) ==
  IF ~q.connOpen
  THEN ArchiveFail(CommitStatus(q), FALSE)
  ELSE [CommitStatus(q) EXCEPT !.sink = Append(@, q.data), !.pc = "aread"]

ArchiveWrite(r) ==
  /\ rq[r].pc = "awrite"
  /\ rq' = [rq EXCEPT ![r] = CopyWrite(@)]
  /\ UNCHANGED <<runningTasks, Steps, rtLock, logs, archives, sub, c, received>>

(* --------------------------- specifications ---------------------------- *)
Engine ==
  \/ Register
  \/ \E i \in StepIndices : StartStep(i)
  \/ \E i \in StepIndices, nl \in BOOLEAN : AppendLog(i, nl)
  \/ \E i \in StepIndices : FinishStep(i)
  \/ Evict

Next ==
  \/ Engine
  \/ \E r \in Readers, t \in TaskStrs, s \in StepStrs, fo \in BOOLEAN, f \in BOOLEAN :
        LogsServeHTTP(r, t, s, fo, f)
  \/ \E r \in Readers, f \in BOOLEAN : ReadBytes(r, f)
  \/ \E r \in Readers, f \in BOOLEAN : Seek(r, f)
  \/ \E r \in Readers : Get(r)
  \/ \E r \in Readers : Lock(r)
  \/ \E r \in Readers : ReadPhase(r)
  \/ \E r \in Readers : Unlock(r)
  \/ \E r \in Readers : Sleep(r)
  \/ \E r \in Readers : Write(r)
  \/ \E r \in Readers : ClientClose(r)
  \/ \E r \in Readers, t \in TaskStrs, s \in StepStrs, f \in BOOLEAN :
        ArchivesServeHTTP(r, t, s, f)
  \/ \E r \in Readers, f \in BOOLEAN : ArchiveRead(r, f)
  \/ \E r \in Readers : ArchiveWrite(r)

Spec == Init /\ [][Next]_vars

TypeOK ==
  /\ runningTasks \subseteq TaskIDs
  /\ rtLock \in {"free"} \cup Readers
  /\ \A r \in Readers :
       /\ rq[r].fpos \in 0..(MaxFileLen + 1)
       /\ rq[r].status \in {0, 200, 400, 404, 500}
       /\ rq[r].err \in {"nil", "EOF", "EIO", "ESPIPE", "EPIPE"}

\* the handler steps of request r, with I/O faults allowed
Handler(r) ==
  \/ \E f \in BOOLEAN : ReadBytes(r, f)
  \/ \E f \in BOOLEAN : Seek(r, f)
  \/ Get(r) \/ Lock(r) \/ ReadPhase(r) \/ Unlock(r) \/ Sleep(r) \/ Write(r)
  \/ \E f \in BOOLEAN : ArchiveRead(r, f)
  \/ ArchiveWrite(r)

\* the handler steps of request r when no read or seek fails
HandlerNoFault(r) ==
  \/ ReadBytes(r, FALSE)
  \/ Seek(r, FALSE)
  \/ Get(r) \/ Lock(r) \/ ReadPhase(r) \/ Unlock(r) \/ Sleep(r) \/ Write(r)
  \/ ArchiveRead(r, FALSE)
  \/ ArchiveWrite(r)

\* every behaviour, and each goroutine serving a request keeps being scheduled
\* (a sleep returns, a free mutex is acquired); the engine and the clients are
\* under no obligation
SpecFair == Init /\ [][Next]_vars /\ \A r \in Readers : WF_vars(Handler(r))

\* no I/O fault and no client disconnect
NextLive ==
  \/ Engine
  \/ \E r \in Readers, t \in TaskStrs, s \in StepStrs, fo \in BOOLEAN :
        LogsServeHTTP(r, t, s, fo, FALSE)
  \/ \E r \in Readers : ReadBytes(r, FALSE)
  \/ \E r \in Readers : Seek(r, FALSE)
  \/ \E r \in Readers : Get(r)
  \/ \E r \in Readers : Lock(r)
  \/ \E r \in Readers : ReadPhase(r)
  \/ \E r \in Readers : Unlock(r)
  \/ \E r \in Readers : Sleep(r)
  \/ \E r \in Readers : Write(r)
  \/ \E r \in Readers, t \in TaskStrs, s \in StepStrs : ArchivesServeHTTP(r, t, s, FALSE)
  \/ \E r \in Readers : ArchiveRead(r, FALSE)
  \/ \E r \in Readers : ArchiveWrite(r)

SpecLive == Init /\ [][NextLive]_vars /\ \A r \in Readers : WF_vars(HandlerNoFault(r))

(* ------------------------- vocabulary of the claims --------------------- *)
\* request r is a log stream: its log file was opened
LogStream(r) == rq[r].kind = "logs" /\ rq[r].openErr = "nil"
FollowStream(r) == LogStream(r) /\ rq[r].follow
\* the bytes delivered to the sink by readLogs / readArchive, in order
Delivered(r) == Flatten(rq[r].sink)
\* the log file the stream reads
File(r) == logs[rq[r].step]
Done(r) == rq[r].pc = "returned" /\ rq[r].ret = "nil"
Failed(r) == rq[r].pc = "returned" /\ rq[r].ret = "err"
\* the position in readLogs' loop is one where the cursor is settled
InLoop(r) == rq[r].pc \in {"read", "seek", "get", "lock", "phase", "unlock", "sleep", "write"}

(* ------------------------------- C1 ------------------------------------ *)
\* the stream of r follows a file whose step has been over (phase finished,
\* or no handle in the registry) ever since the file was opened; such a file
\* receives no append
QuietFollow(r) == FollowStream(r) /\ rq[r].quiet

\* C1: a follow-mode read of a log that gets no further append and whose step
\* is finished (or untracked) from the start of the read returns nil after at
\* most one poll wait, and what it wrote to the sink is the whole file, byte
\* for byte.
C1_FollowTermination ==
  /\ [](\A r \in Readers : QuietFollow(r) => rq[r].polls <= 1)
  /\ \A r \in Readers :
       QuietFollow(r) ~> (\/ ~rq[r].quiet
                          \/ Done(r) /\ Delivered(r) = File(r) /\ rq[r].polls <= 1)

\* a quiet follow stream has returned nil after one poll wait, having
\* delivered a file whose last line has no delimiter
C1_Witness ==
  \E r \in Readers :
     /\ QuietFollow(r) /\ Done(r) /\ rq[r].polls = 1
     /\ Len(rq[r].sink) >= 2 /\ Delivered(r) = File(r)
     /\ File(r)[Len(File(r))] # NL

(* ------------------------------- C2 ------------------------------------ *)
\* where the k-th unit of us starts in the byte stream
UnitOffset(us, k) == Len(Flatten(SubSeq(us, 1, k - 1)))

\* u lies in file at offset off, begins a source line and holds no delimiter
\* before its last byte
LineStartAt(file, off, u) ==
  /\ off + Len(u) <= Len(file)
  /\ SubSeq(file, off + 1, off + Len(u)) = u
  /\ off = 0 \/ file[off] = NL
  /\ \A i \in 1..(Len(u) - 1) : u[i] # NL

EndsWithNL(u) == u # <<>> /\ u[Len(u)] = NL

\* no engine is writing the log of this step (any more)
NoWriter(step) == step \notin StepIndices \/ Steps[step] # "running"

\* C2: in follow mode, whatever the interleaving of the engine's appends with
\* the reads and poll cycles, every unit written to the sink is one whole
\* source line ending with the delimiter; only the last unit may lack it, and
\* then it was written after the step was observed finished or untracked and
\* it reaches the end of a file that no longer grows.
C2_NoSplitLine ==
  \A r \in Readers : FollowStream(r) =>
    \A k \in 1..Len(rq[r].sink) :
      LET u   == rq[r].sink[k]
          off == UnitOffset(rq[r].sink, k)
      IN /\ LineStartAt(File(r), off, u)
         /\ \/ EndsWithNL(u)
            \/ /\ k = Len(rq[r].sink)
               /\ rq[r].flushstop
               /\ off + Len(u) = Len(File(r))
               /\ NoWriter(rq[r].step)

\* a follow stream whose file grew after the open has returned, its last unit
\* a non-empty line without delimiter, after a delimited one
C2_Witness ==
  \E r \in Readers :
     /\ FollowStream(r) /\ ~rq[r].quiet /\ Done(r)
     /\ Len(rq[r].atOpen) < Len(File(r))
     /\ Len(rq[r].sink) >= 2
     /\ EndsWithNL(rq[r].sink[1])
     /\ ~EndsWithNL(rq[r].sink[Len(rq[r].sink)])
     /\ rq[r].sink[Len(rq[r].sink)] # <<>>

(* ------------------------------- C3 ------------------------------------ *)
\* the bytes the reader has taken from the file but not yet written
Pending(q) ==
  Len(q.buf) + Len(q.frag) + (IF q.pc \in {"seek", "write"} THEN Len(q.data) ELSE 0)

\* C3: what a stream has written to the sink is always a prefix of the log
\* file; the file offset less the bytes still held by the reader is the number
\* of bytes delivered; and after follow mode hit end-of-file the cursor has
\* moved back by the length of the partial line: it equals the number of
\* bytes delivered and the partial line lies right after it, to be read again.
C3_ExactlyOnce ==
  \A r \in Readers : LogStream(r) =>
    /\ IsPrefix(Delivered(r), File(r))
    /\ InLoop(r) => rq[r].fpos - Pending(rq[r]) = Len(Delivered(r))
    /\ rq[r].pc \in {"get", "lock", "phase", "unlock", "sleep"} =>
         /\ rq[r].fpos = Len(Delivered(r))
         /\ rq[r].buf = <<>> /\ rq[r].frag = <<>>
         /\ SubSeq(File(r), rq[r].fpos + 1, rq[r].fpos + Len(rq[r].data)) = rq[r].data

\* a stream that already delivered a line and polled once has again moved
\* back over a partial line
C3_Witness ==
  \E r \in Readers :
     /\ FollowStream(r) /\ rq[r].pc = "get"
     /\ rq[r].data # <<>> /\ rq[r].sink # <<>> /\ rq[r].polls >= 1

(* ------------------------------- C4 ------------------------------------ *)
\* C4 as stated: a non-follow read that returns nil has written exactly the
\* bytes the file held when it was opened, also when the engine appends
\* during the read.
C4_Original ==
  \A r \in Readers :
     LogStream(r) /\ ~rq[r].follow /\ Done(r) => Delivered(r) = rq[r].atOpen

\* C4 amended: a non-follow read that returns nil has written the bytes the
\* file held at call time, unmodified and in order and with a trailing
\* undelimited line, followed by nothing but bytes the engine appended to the
\* file during the read; with no append during the read it has written
\* exactly the call-time bytes.
C4_NonFollowContent ==
  \A r \in Readers :
     LogStream(r) /\ ~rq[r].follow /\ Done(r) =>
       /\ IsPrefix(rq[r].atOpen, Delivered(r))
       /\ IsPrefix(Delivered(r), File(r))
       /\ File(r) = rq[r].atOpen => Delivered(r) = rq[r].atOpen

\* a non-follow read has returned a file of two lines, the last one
\* undelimited, that did not change during the read
C4_Witness ==
  \E r \in Readers :
     /\ LogStream(r) /\ ~rq[r].follow /\ Done(r)
     /\ File(r) = rq[r].atOpen
     /\ Len(rq[r].sink) >= 2
     /\ ~EndsWithNL(rq[r].sink[Len(rq[r].sink)])
     /\ rq[r].sink[Len(rq[r].sink)] # <<>>

(* ------------------------------- C5 ------------------------------------ *)
\* the handle of the task was evicted from the registry
Evicted == "t1" \notin runningTasks /\ \A i \in StepIndices : IsFinished(Steps[i])

\* the phase of the step the request names is finished
PhaseFinished(r) == rq[r].step \in StepIndices /\ IsFinished(Steps[rq[r].step])

\* C5: with a sink that never fails, scheduling fair to the handler and an
\* engine that stops appending when the step finishes, every follow-mode
\* stream whose step's phase has become finished, or whose task's handle has
\* been evicted, eventually returns nil having delivered the whole final
\* content of its log file.
C5_FollowLiveness ==
  \A r \in Readers :
     (FollowStream(r) /\ (PhaseFinished(r) \/ Evicted))
        ~> (Done(r) /\ Delivered(r) = File(r))

\* the same for the streams that name a step the task has
C5_InRange ==
  \A r \in Readers :
     (FollowStream(r) /\ PhaseFinished(r))
        ~> (Done(r) /\ Delivered(r) = File(r))

(* ------------------------------- C6 ------------------------------------ *)
\* the goroutine of r has ended: the handler returned or panicked
Stopped(r) == rq[r].pc \in {"returned", "panicked"}
Closed(r) == ~rq[r].connOpen

\* C6 as stated: once the client has closed the connection the log stream
\* stops, also a follow-mode stream that is polling a file with no new
\* complete line and whose step is still running.
C6_Original ==
  \A r \in Readers : (LogStream(r) /\ Closed(r)) ~> Stopped(r)

\* C6 amended: once the client has closed the connection nothing more is
\* delivered, and the stream stops at its next write to the sink. A
\* non-follow stream and a stream in flush-and-stop always reach that write
\* and return, and so does a follow-mode stream whose step's phase is
\* finished; a follow-mode stream that finds no complete line while its step
\* is running does not notice the disconnect and keeps polling.
C6_Cancellation ==
  /\ [][\A r \in Readers : Closed(r) => rq'[r].sink = rq[r].sink]_vars
  /\ \A r \in Readers :
       (LogStream(r) /\ Closed(r)
          /\ (~rq[r].follow \/ rq[r].flushstop \/ rq[r].pc = "write" \/ PhaseFinished(r)))
        ~> (rq[r].pc = "returned")

\* a follow stream that polled, lost its client and then failed at a write
C6_Witness ==
  \E r \in Readers :
     /\ FollowStream(r) /\ Closed(r) /\ Failed(r)
     /\ rq[r].polls >= 1 /\ rq[r].sink # <<>>
     /\ Len(Delivered(r)) < Len(File(r))

(* ------------------------------- C7 ------------------------------------ *)
\* the text s is an integer: an optional sign, then decimal digits
IsIntegerText(s) ==
  LET d == IF s # <<>> /\ s[1] \in {"+", "-"} THEN SubSeq(s, 2, Len(s)) ELSE s
  IN d # <<>> /\ \A i \in 1..Len(d) :
        d[i] \in {"0", "1", "2", "3", "4", "5", "6", "7", "8", "9"}

\* the query lacks taskid, lacks step, or its step is no integer
BadQuery(q) == q.taskID = "" \/ q.s = <<>> \/ ~IsIntegerText(q.s)

\* C7: a log or archive request without taskid, without step or with a step
\* that is not an integer is answered 400; no path was resolved, no file
\* opened, the registry not consulted, and no log or archive byte written.
C7_MissingParams ==
  \A r \in Readers :
     rq[r].pc # "idle" /\ BadQuery(rq[r]) =>
       /\ rq[r].status = 400
       /\ rq[r].pc = "returned" /\ rq[r].ret = "none"
       /\ rq[r].ops = {}
       /\ rq[r].openErr = "none"
       /\ rq[r].sink = <<>>

\* a log request with taskid and the step "1x" was answered 400
C7_Witness ==
  \E r \in Readers :
     /\ rq[r].kind = "logs" /\ rq[r].taskID = "t1" /\ rq[r].s = <<"1", "x">>
     /\ rq[r].status = 400 /\ rq[r].pc = "returned"

(* ------------------------------- C8 ------------------------------------ *)
\* the step in which the handler of r takes up a request of the given kind
\* whose query is well-formed
Serves(r, kind) ==
  rq[r].pc = "idle" /\ rq'[r].pc # "idle" /\ rq'[r].kind = kind /\ ~BadQuery(rq'[r])

\* C8: for a log request with valid parameters the status is 404 when the
\* log file does not exist at the open, 500 when the open fails otherwise,
\* and 200 in every other case; it is settled by the open: after a successful
\* open no status but 200 is ever committed, a committed status never
\* changes, and a read, seek or write error after the open ends the stream
\* with the error logged and nothing added to the response.
C8_LogStatus ==
  /\ [](\A r \in Readers : rq[r].kind = "logs" /\ ~BadQuery(rq[r]) =>
          /\ rq[r].openErr = "notexist" => rq[r].status = 404 /\ rq[r].sink = <<>>
          /\ rq[r].openErr = "other" => rq[r].status = 500 /\ rq[r].sink = <<>>
          /\ rq[r].openErr = "nil" =>
               /\ rq[r].status \in {0, 200}
               /\ (rq[r].pc = "returned" \/ rq[r].sink # <<>>) => rq[r].status = 200
               /\ rq[r].errbody = <<>>
               /\ Failed(r) => rq[r].logged)
  /\ [][\A r \in Readers :
          /\ Serves(r, "logs") =>
               /\ logs[rq'[r].step] = Absent <=> rq'[r].status = 404
               /\ logs[rq'[r].step] # Absent => rq'[r].status \in {0, 500}
               /\ rq'[r].status = 500 <=> rq'[r].openErr = "other"
          /\ rq[r].status # 0 => rq'[r].status = rq[r].status]_vars

\* a stream that had delivered a line failed on a read or seek error: the
\* status stays 200 and the error is logged
C8_Witness ==
  \E r \in Readers :
     /\ LogStream(r) /\ Failed(r) /\ rq[r].connOpen
     /\ rq[r].sink # <<>> /\ rq[r].status = 200 /\ rq[r].logged

(* ------------------------------- C9 ------------------------------------ *)
\* C9 as stated: an archive request for a (taskid, step) whose archive file
\* does not exist is answered 404 and no byte is written to the body.
C9_Original ==
  \A r \in Readers :
     rq[r].kind = "archive" /\ rq[r].openErr = "notexist" =>
        rq[r].status = 404 /\ rq[r].sink = <<>> /\ rq[r].errbody = <<>>

\* C9 amended: an archive request for a (taskid, step) whose archive file
\* does not exist is answered 404 and no archive byte is written; the body
\* holds only the newline that http.Error writes after the header.
C9_ArchiveAbsent ==
  /\ [](\A r \in Readers :
          rq[r].kind = "archive" /\ rq[r].openErr = "notexist" =>
             rq[r].status = 404 /\ rq[r].sink = <<>> /\ rq[r].errbody = <<NL>>)
  /\ [][\A r \in Readers :
          Serves(r, "archive") /\ archives[rq'[r].step] = Absent =>
             /\ rq'[r].pc = "returned" /\ rq'[r].openErr = "notexist"
             /\ rq'[r].status = 404 /\ rq'[r].sink = <<>>]_vars

\* the archive of step 0 was requested while the step was running
C9_Witness ==
  \E r \in Readers :
     /\ rq[r].kind = "archive" /\ rq[r].openErr = "notexist"
     /\ rq[r].step = 0 /\ Steps[0] = "running" /\ archives[0] = Absent
     /\ rq[r].status = 404 /\ rq[r].pc = "returned"

(* ------------------------------- C10 ----------------------------------- *)
\* C10: an archive request with valid parameters is answered 200 with the
\* whole archive file as its body when open and copy succeed, and a client
\* that is still connected observes 500 whenever open or copy failed for a
\* reason other than the file being absent, also when the failure came after
\* some archive bytes had been written.
C10_ArchiveOutcome ==
  \A r \in Readers :
     rq[r].kind = "archive" /\ ~BadQuery(rq[r]) /\ rq[r].pc = "returned" =>
        /\ rq[r].ret = "nil" =>
              /\ rq[r].status = 200
              /\ Delivered(r) = archives[rq[r].step]
              /\ rq[r].errbody = <<>>
        /\ rq[r].ret = "err" /\ rq[r].openErr # "notexist" /\ rq[r].connOpen =>
              rq[r].status = 500

(* ----------------------- taskSubmissionHandler ------------------------- *)
\* request bodies, as JSON tokens: "A" stands for the members of a task
\* description, "null" for the JSON literal
Bodies == { <<>>, <<"{">>, <<"{", "A">>, <<"null">>, <<"{", "}">>, <<"{", "A", "}">> }

\* the nil *types.ExecutorTask
NilTask == <<>>

\* d.Decode(&et) with var et *types.ExecutorTask: the first JSON value of the
\* body. The literal null sets the pointer to nil and is no error; an object
\* allocates the task and fills the members it has; a body that ends before
\* the value is complete is an error
Decode(body) ==
  IF body = <<>> THEN [ok |-> FALSE, et |-> NilTask]
  ELSE IF body[1] = "null" THEN [ok |-> TRUE, et |-> NilTask]
  ELSE IF body[1] = "{" /\ body[Len(body)] = "}"
  THEN [ok |-> TRUE, et |-> <<"task">> \o SubSeq(body, 2, Len(body) - 1)]
  ELSE [ok |-> FALSE, et |-> NilTask]

\* mutant: the handler answers without waiting for the send to be taken
SubmitNoWait(q, body) ==
  LET d == Decode(body)
  IN IF ~d.ok
     THEN [q EXCEPT !.body = body, !.status = 500, !.pc = "returned"]
     ELSE [q EXCEPT !.body = body, !.et = d.et, !.status = 200, !.pc = "returned"]

\* taskSubmissionHandler.ServeHTTP up to the send: a failed decode is answered
\* 500 and the handler returns; otherwise it goes on to h.c <- et
Submit(q, body) ==
  LET d == Decode(body)
  IN IF ~d.ok
     THEN [q EXCEPT !.body = body, !.status = 500, !.pc = "returned"]
     ELSE [q EXCEPT !.body = body, !.et = d.et, !.pc = "send"]

\* h.c <- et: the handler is parked on the channel with its item
TaskSubmissionServeHTTP(s, body) ==
  /\ sub[s].pc = "idle"
  /\ LET q == Submit(sub[s], body)
     IN /\ sub' = [sub EXCEPT ![s] = q]
        /\ c' = IF Decode(body).ok THEN Append(c, [from |-> s, et |-> q.et]) ELSE c
  /\ UNCHANGED <<runningTasks, Steps, rtLock, logs, archives, rq, received>>

\* the consumer of the channel takes the oldest parked send; that handler
\* returns, which commits the implicit 200
Recv ==
  /\ c # <<>>
  /\ received' = Append(received, Head(c).et)
  /\ c' = Tail(c)
  /\ sub' = [sub EXCEPT ![Head(c).from] = [@ EXCEPT !.status = 200, !.pc = "returned"]]
  /\ UNCHANGED <<runningTasks, Steps, rtLock, logs, archives, rq>>

NextSubmit ==
  \/ \E s \in Submitters, body \in Bodies : TaskSubmissionServeHTTP(s, body)
  \/ Recv

\* the submissions alone, with a consumer that keeps receiving
SpecSubmit == Init /\ [][NextSubmit]_vars /\ WF_vars(Recv)

(* ------------------------------ C11, C12 ------------------------------- *)
\* the submissions that got past the decode
Decoded == { s \in Submitters : sub[s].pc # "idle" /\ Decode(sub[s].body).ok }

\* the decode outcome decides the response and the send: a failed decode is
\* answered 500 with nothing sent, a successful one sends one item, the
\* decoded et
C11_DecodeDecides ==
  /\ \A s \in Submitters : sub[s].pc # "idle" /\ ~Decode(sub[s].body).ok =>
       sub[s].pc = "returned" /\ sub[s].status = 500
  /\ \A s \in Submitters : sub[s].status = 500 => ~Decode(sub[s].body).ok
  /\ Len(c) + Len(received) = Cardinality(Decoded)
  /\ \A i \in 1..Len(received) :
       \E s \in Decoded : received[i] = Decode(sub[s].body).et

\* C11: a body that fails to decode is answered 500 and sends nothing; a body
\* that decodes sends exactly one item, the decoded task; so every item the
\* consumer receives is a successfully decoded task description
C11_SubmissionDecode ==
  /\ C11_DecodeDecides
  /\ \A i \in 1..Len(received) : received[i] # NilTask

\* C12: a submission that decoded does not complete before the consumer has
\* taken its task: the completed ones are as many as the items received, a
\* parked send ends only by a receive, and while the consumer keeps receiving
\* every parked submission completes
C12_Backpressure ==
  /\ [](Cardinality({ s \in Decoded : sub[s].pc = "returned" }) = Len(received))
  /\ [](\A s \in Decoded : sub[s].pc = "send" <=>
          \E i \in 1..Len(c) : c[i].from = s /\ c[i].et = sub[s].et)
  /\ [][\A s \in Submitters : sub[s].pc = "send" /\ sub'[s].pc # "send" =>
          /\ received' = Append(received, sub[s].et)
          /\ sub'[s].status = 200]_vars
  /\ \A s \in Submitters : (sub[s].pc = "send") ~> (sub[s].pc = "returned")

\* two submissions are parked at once, then the consumer has taken one
\* and the other is still parked
C12_Witness ==
  \E s, u \in Submitters :
     /\ s # u
     /\ sub[s].pc = "returned" /\ sub[s].status = 200
     /\ sub[u].pc = "send"
     /\ Len(received) = 1 /\ Len(c) = 1

(* ------------------------- concurrent streams -------------------------- *)
\* the longest log the engine writes while two requests are served
MaxFileLenTwo == 2

\* two log requests for the log of step 0 of t1, which is being written
InitTwo ==
  /\ runningTasks = {"t1"}
  /\ Steps = [i \in StepIndices |-> "running"]
  /\ rtLock = "free"
  /\ logs = [i \in StepVals |-> IF i \in StepIndices THEN <<>> ELSE Absent]
  /\ archives = [i \in StepVals |-> Absent]
  /\ rq = [r \in Streams |-> IdleReq]
  /\ sub = [s \in Submitters |-> IdleSub]
  /\ c = <<>>
  /\ received = <<>>

\* the engine appends and finishes; r1 is served without I/O fault, r2 may
\* meet a read error and may lose its client
NextTwo ==
  \/ \E i \in StepIndices, nl \in BOOLEAN : Len(logs[i]) < MaxFileLenTwo /\ AppendLog(i, nl)
  \/ \E i \in StepIndices : FinishStep(i)
  \/ \E r \in Streams, fo \in BOOLEAN : LogsServeHTTP(r, "t1", <<"0">>, fo, FALSE)
  \/ \E r \in Streams : ReadBytes(r, FALSE)
  \/ ReadBytes("r2", TRUE)
  \/ \E r \in Streams : Seek(r, FALSE)
  \/ \E r \in Streams : Get(r)
  \/ \E r \in Streams : Lock(r)
  \/ \E r \in Streams : ReadPhase(r)
  \/ \E r \in Streams : Unlock(r)
  \/ \E r \in Streams : Sleep(r)
  \/ \E r \in Streams : Write(r)
  \/ ClientClose("r2")

SpecTwo == InitTwo /\ [][NextTwo]_vars

(* -------------------------------- C13 ---------------------------------- *)
\* the handler of r takes a step
Acts(r) == [rq'[r] EXCEPT !.quiet = FALSE] # [rq[r] EXCEPT !.quiet = FALSE]

\* r read its file without follow, to the end, and the file is as it was
\* when r opened it
CleanRead(r) ==
  LogStream(r) /\ ~rq[r].follow /\ Done(r) /\ rq[r].atOpen = File(r)

\* C13: two reads without follow of the same log file, with no append between
\* or during them, write the same sequence of bytes, write by write, and no
\* step of such a read changes the file, the registry, a phase or the lock
C13_Idempotent ==
  /\ [](\A r, u \in DOMAIN rq :
          CleanRead(r) /\ CleanRead(u) /\ rq[r].step = rq[u].step =>
            rq[r].sink = rq[u].sink /\ Delivered(r) = File(r))
  /\ [][\A r \in DOMAIN rq :
          Acts(r) /\ rq'[r].kind = "logs" /\ ~rq'[r].follow =>
            UNCHANGED <<logs, archives, runningTasks, Steps, rtLock>>]_vars

\* both requests have read the same file without follow, a line and an
\* unfinished line, and are done
C13_Witness ==
  /\ CleanRead("r1") /\ CleanRead("r2")
  /\ File("r1") = <<NL, "b">>
  /\ rq["r1"].sink = << <<NL>>, <<"b">> >>

(* ----------------------------- C14, C15 -------------------------------- *)
\* the handler of r returns from a poll wait
Polls(r) == rq[r].pc = "sleep" /\ rq'[r].pc = "read"

\* the end-of-file check decides flushstop: set when the registry has no
\* handle or the phase read is finished, left alone otherwise
C14_CheckDecides ==
  [][\A r \in DOMAIN rq :
       /\ rq[r].pc = "get" /\ rq'[r].pc # "get" =>
            /\ rq'[r].flushstop = (rq[r].flushstop \/ rq[r].taskID \notin runningTasks)
            /\ rq'[r].pc = (IF rq[r].taskID \in runningTasks THEN "lock" ELSE "sleep")
       /\ rq[r].pc = "phase" /\ rq'[r].pc = "unlock" =>
            rq'[r].flushstop = (rq[r].flushstop \/ IsFinished(Steps[rq[r].step]))]_vars

\* C14: after the seek-back the reader enters flush-and-stop when there is no
\* handle or the phase is finished, and it waits the poll interval only in
\* the remaining case (handle found, step not finished): the final pass
\* starts without a poll wait
C14_PollOnlyWhileRunning ==
  /\ C14_CheckDecides
  /\ [][\A r \in DOMAIN rq : Polls(r) => ~rq[r].flushstop]_vars

\* flushstop is set at most once and stays; with it set the handler makes no
\* registry lookup, takes no lock, seeks no more, and returns nil once the
\* rest of the file is written
C15_OneWay ==
  /\ [][\A r \in DOMAIN rq : rq[r].flushstop =>
          /\ rq'[r].flushstop
          /\ rq'[r].pc \notin {"seek", "get", "lock", "phase"}
          /\ rq'[r].ops \ {"sleep"} = rq[r].ops \ {"sleep"}]_vars
  /\ [](\A r \in DOMAIN rq : FollowStream(r) /\ Done(r) =>
          rq[r].flushstop /\ IsPrefix(Delivered(r), File(r)))

\* C15: flush-and-stop is entered at most once and left only to Done or
\* Failed; once in it the reader makes no further registry lookup, lock,
\* seek-back or poll wait, forwards the remaining lines and at the next
\* end-of-file the final bytes, and returns nil. A poll wait made before the
\* step is seen finished is the last one: the rest follows after that one
\* delay
C15_FlushAndStop ==
  /\ C15_OneWay
  /\ [][\A r \in DOMAIN rq : rq[r].flushstop =>
          ~Polls(r) /\ rq'[r].polls = rq[r].polls]_vars

(* -------------------------------- C16 ---------------------------------- *)
\* the phase is read under the lock, the lock is taken after the lookup has
\* returned a handle, and no reader holds it in a poll wait, a file read, a
\* seek or a write
C16_NotAcrossIO ==
  /\ [](\A r \in DOMAIN rq : rq[r].pc = "phase" => rtLock = r)
  /\ [][\A r \in DOMAIN rq : rtLock' = r /\ rtLock # r =>
          rq[r].pc = "lock" /\ "get" \in rq[r].ops]_vars
  /\ [](\A r \in DOMAIN rq : rtLock = r =>
          rq[r].pc \notin {"read", "seek", "get", "lock", "sleep", "write"})

\* C16: the phase is read only while the handle's lock is held; the registry
\* lookup has returned before the lock is taken; the lock is held for the
\* single phase read only, never in a poll wait, a file read, a seek or a
\* write to the sink
C16_LockDiscipline ==
  /\ C16_NotAcrossIO
  /\ [](\A r \in DOMAIN rq : rtLock = r => rq[r].pc \in {"phase", "unlock"})

(* -------------------------------- C19 ---------------------------------- *)
\* C19: every lock acquisition of a follow-mode reader is followed by its
\* release, for every step value the endpoint accepts: the phase read between
\* Lock and Unlock cannot fail, so a request that has ended never holds the
\* lock
C19_LockReleased ==
  /\ [][\A r \in DOMAIN rq : rq[r].pc = "phase" => rq'[r].pc \in {"phase", "unlock"}]_vars
  /\ [](\A r \in DOMAIN rq : rq[r].pc \in {"idle", "returned", "panicked"} => rtLock # r)

(* -------------------------------- C17 ---------------------------------- *)
\* the errors of read, seek and write other than io.EOF
IOErrors == {"EIO", "ESPIPE", "EPIPE"}

\* C17: an error other than end-of-file from the file read, the seek-back or
\* the write to the sink ends the stream as Failed, with the error returned
\* (and logged by the caller), whatever the state it was in. Done and Failed
\* are terminal: nothing more is written, looked up or locked. What was
\* delivered before stays delivered
C17_ErrorAborts ==
  /\ [](\A r \in DOMAIN rq : LogStream(r) /\ rq[r].err \in IOErrors =>
          Failed(r) /\ rq[r].logged)
  /\ [](\A r \in DOMAIN rq : LogStream(r) /\ Failed(r) => rq[r].err \in IOErrors)
  /\ [][\A r \in DOMAIN rq : LogStream(r) /\ rq[r].pc = "returned" =>
          /\ ~Acts(r)
          /\ (rtLock' = r) = (rtLock = r)]_vars
  /\ [][\A r \in DOMAIN rq : rq[r].kind = "logs" =>
          IsPrefix(rq[r].sink, rq'[r].sink)]_vars

\* a read error in flush-and-stop, after a line was delivered
C17_Witness ==
  \E r \in DOMAIN rq :
     /\ LogStream(r) /\ Failed(r)
     /\ rq[r].flushstop /\ rq[r].err = "EIO"
     /\ rq[r].sink # <<>> /\ rq[r].sink[1] # <<>>
     /\ rtLock = "free"

(* -------------------------------- C18 ---------------------------------- *)
\* C18: without follow the first end-of-file sets stop, the bytes that came
\* with it (a last line without delimiter included) are written and the
\* stream is Done; whatever the phase of the step, such a reader never waits,
\* never seeks back, never consults the registry and never takes a lock
C18_NonFollowEOF ==
  /\ [](\A r \in DOMAIN rq : LogStream(r) /\ ~rq[r].follow =>
          /\ rq[r].ops = {"path", "open"}
          /\ rq[r].polls = 0
          /\ ~rq[r].flushstop
          /\ rq[r].pc \in {"read", "write", "returned"}
          /\ rtLock # r
          /\ rq[r].err = "EOF" => rq[r].stop /\ rq[r].pc = "write"
          /\ Done(r) => rq[r].stop /\ IsPrefix(rq[r].atOpen, Delivered(r)))
  /\ [][\A r \in DOMAIN rq :
          LogStream(r) /\ ~rq[r].follow /\ rq[r].err = "EOF" /\ Acts(r) /\ rq'[r].connOpen =>
            Done(r)' /\ rq'[r].sink = Append(rq[r].sink, rq[r].data)]_vars

\* a read without follow is Done while the step is still running and
\* tracked, and the last bytes it delivered were a line without delimiter
C18_Witness ==
  \E r \in DOMAIN rq :
     /\ LogStream(r) /\ ~rq[r].follow /\ Done(r)
     /\ rq[r].taskID \in runningTasks /\ rq[r].step \in StepIndices
     /\ Steps[rq[r].step] = "running"
     /\ Len(rq[r].sink) = 2 /\ rq[r].sink[2] = <<"c">>

(* -------------------------------- C20 ---------------------------------- *)
\* C20: streams on the same log file, with the engine appending, are
\* independent: each has its own cursor and its own stop and flushstop, so a
\* step of one (progress, wait, failure, disconnect) changes nothing of
\* another, each one's deliveries are a prefix of the file accounted for by
\* its own cursor, and each follow stream that is Done has delivered the
\* whole file, in order, once
C20_Independent ==
  /\ [][\A r, u \in DOMAIN rq : r # u /\ Acts(u) => rq'[r] = rq[r]]_vars
  /\ [](\A r \in DOMAIN rq : LogStream(r) =>
          /\ IsPrefix(Delivered(r), File(r))
          /\ InLoop(r) => rq[r].fpos - Pending(rq[r]) = Len(Delivered(r))
          /\ FollowStream(r) /\ Done(r) => Delivered(r) = File(r))

\* two follow streams on the same two-byte file: r1 is Done with all of it,
\* while r2 lost its client and failed with less
C20_Witness ==
  /\ FollowStream("r1") /\ Done("r1")
  /\ Len(File("r1")) = MaxFileLenTwo
  /\ Len(rq["r1"].sink) = 2
  /\ FollowStream("r2") /\ Failed("r2") /\ ~rq["r2"].connOpen
  /\ Len(Delivered("r2")) < Len(File("r2"))

====
